---------------------------- MODULE Spec2Model ----------------------------
(***************************************************************************)
(* Model of backupvm.py (ovirt-python-backup): one invocation of main()    *)
(* after another, each constructing a Backup and calling Backup.run().     *)
(* The remote oVirt API, the device lookup, dd and the local filesystem    *)
(* are the environment: every call the code makes may return any of the    *)
(* outcomes the call can produce (a value, or an exception of the type    *)
(* the call raises).  Python's exception unwinding through the two `with`  *)
(* blocks and the two `except` clauses is modelled step by step with the   *)
(* pending exception in `exc`.                                             *)
(***************************************************************************)
EXTENDS Integers, Sequences, FiniteSets, TLC

(***************************************************************************)
(* Bounds of the model.                                                    *)
(***************************************************************************)
MaxRuns == 3
MaxDisks == 2
MaxKeep == 2
MaxMatches == 1
MaxIds == 3
MaxParts == 1
MaxStarts == 4

(***************************************************************************)
(* Program constants.                                                      *)
(***************************************************************************)
maxtries == 50
find_maxtries == 6
PrefixLen == 20
v2_num_backups == 3

Exceptions == {"sdk.Error", "BackupError", "SnapshotError", "OSError", "Exception"}
Disks == 1..MaxDisks
Times == 1..MaxRuns

VARIABLES
    pc,             \* position of the running invocation
    exc,            \* exception being propagated ("none" when there is none)
    exitCode,       \* -1 while the process runs, then its exit status
    runError,       \* the exception that reached main(), "none" if none did
    runs,           \* invocations of main() started so far
    now,            \* datetime.now() truncated to the minute ('%Y%m%d%H%M')
    dirs,           \* existing run directories  <base>/<vm>/<timestamp>
    markers,        \* existing marker files     <base>/<vm>/<timestamp>.OK
    num_backups,    \* Backup._num_backups (--numkeep)
    migrate,        \* Backup._migrate (--migrate-vm)
    madeDir,        \* os.makedirs(backup_vm_date_dir) of this run succeeded
    snapCreates,    \* snapshots_service.add() calls that returned, this run
    snapRemoves,    \* snapshot_service.remove() requests issued, this run
    snapEntered,    \* AutoSnapshotService.__enter__ returned in this run
    snapstatus,     \* local snapstatus of __enter__: the last status fetched
    tries,          \* local tries of AutoSnapshotService.__enter__
    sleeps,         \* time.sleep(2) calls made by __enter__
    migrateCalls,   \* vm_service.migrate() requests issued, this run
    nDisks,         \* len(disks_service.list())
    disk,           \* index of snapshot_disk in the for loop
    attached,       \* disk attachments existing on the agent VM
    attachCreated,  \* disks whose attachments_service.add() returned, this run
    attachRemoves,  \* per disk, attachment_service.remove() requests issued
    find_tries,     \* local tries of _find_data_disk
    copied,         \* disks whose _copy_disk returned normally
    copyFailed,     \* disks whose dd exited non-zero
    backups_ok,     \* local list of _remove_old_backups
    retentionRan,   \* _remove_old_backups was called in this run
    completedEvent, \* the 'completed succesfully' event was sent in this run
    lastFetch,      \* outcome of the last status fetch of __enter__
    fetches,        \* snapshot_service.get() calls made by __enter__
    input_file,     \* device returned by _find_data_disk (0: none)
    happened,       \* what this run met: "vm_missing", "dir_exists", "ovf_absent",
                    \* "ovf_fetch_error", "ovf_write_error", "fetch_error",
                    \* "migrate_error"
    deleted,        \* markers unlinked by _remove_old_backups in this run
    by_id,          \* backupvm2: the entries of /dev/disk/by-id
    attachment_id,  \* backupvm2: disk of the attachment passed to
                    \* _find_data_device
    device,         \* backupvm2: device returned by _find_data_device
    devpc,          \* backupvm2: "idle", "returned" or "raised"
    stuck,          \* the remote keeps the snapshot locked for ever after
                    \* its removal was requested
    opc,            \* overlapping runs: where each process is
    otime,          \* overlapping runs: the timestamp of each process's run
    olist,          \* overlapping runs: backups_ok of each process
    everMarked      \* overlapping runs: the runs that ever had a marker

vars == <<pc, exc, exitCode, runError, runs, now, dirs, markers, num_backups,
          migrate, madeDir, snapCreates, snapRemoves, snapEntered, snapstatus,
          tries, sleeps, migrateCalls, nDisks, disk, attached, attachCreated,
          attachRemoves, find_tries, copied, copyFailed, backups_ok,
          retentionRan, completedEvent, lastFetch, fetches, input_file,
          happened, deleted, by_id, attachment_id, device, devpc, stuck,
          opc, otime, olist, everMarked>>

fsVars == <<dirs, markers>>
cfgVars == <<num_backups, migrate>>
procVars == <<exitCode, runError, runs, now>>
snapVars == <<snapCreates, snapRemoves, snapEntered, snapstatus, tries, sleeps,
              lastFetch, fetches>>
diskVars == <<nDisks, disk, attached, attachCreated, attachRemoves, find_tries,
              copied, copyFailed, input_file>>
miscVars == <<madeDir, migrateCalls, backups_ok, retentionRan, completedEvent>>
histVars == <<happened, deleted>>
devVars == <<by_id, attachment_id, device, devpc>>
envVars == <<stuck>>
ovVars == <<opc, otime, olist, everMarked>>
mainVars == <<fsVars, cfgVars, procVars, snapVars, diskVars, miscVars, histVars,
              envVars, ovVars, pc, exc>>

\* Two processes of the tool that may run at the same time for one VM
Procs == {1, 2}

\* No device: the value of `device` while _find_data_device has returned
\* nothing.
NoDevice == [disk |-> -1, part |-> 0]

(***************************************************************************)
(* The state of a fresh process: nothing of a run has happened yet.        *)
(***************************************************************************)
FreshLocals ==
    /\ exc = "none"
    /\ exitCode = -1
    /\ runError = "none"
    /\ madeDir = FALSE
    /\ snapCreates = 0
    /\ snapRemoves = 0
    /\ snapEntered = FALSE
    /\ snapstatus = "locked"
    /\ tries = 0
    /\ sleeps = 0
    /\ migrateCalls = 0
    /\ nDisks = 0
    /\ disk = 0
    /\ attached = {}
    /\ attachCreated = {}
    /\ attachRemoves = [d \in Disks |-> 0]
    /\ find_tries = 0
    /\ copied = {}
    /\ copyFailed = {}
    /\ backups_ok = <<>>
    /\ retentionRan = FALSE
    /\ completedEvent = FALSE
    /\ lastFetch = "none"
    /\ fetches = 0
    /\ input_file = 0
    /\ happened = {}
    /\ deleted = {}
    /\ stuck = FALSE

\* main() of backupvm.py is about to construct Backup
FreshRun ==
    /\ pc = "get_data_vm"
    /\ FreshLocals

\* What is there before the first invocation: no run directory, the options
\* of the command line, and the by-id directory of backupvm2's lookup.
InitRest ==
    /\ runs = 1
    /\ now = 1
    /\ dirs = {}
    /\ markers = {}
    /\ num_backups \in 1..MaxKeep
    /\ migrate \in BOOLEAN
    /\ by_id = {}
    /\ attachment_id = 0
    /\ device = NoDevice
    /\ devpc = "idle"
    /\ opc = [p \in Procs |-> "idle"]
    /\ otime = [p \in Procs |-> 0]
    /\ olist = [p \in Procs |-> <<>>]
    /\ everMarked = {}

Init ==
    /\ FreshRun
    /\ InitRest


(***************************************************************************)
(* Exception handling of the two except clauses.                           *)
(***************************************************************************)
\* Mutant of RunCatches: the clause names sdk.Error only.
RunCatchesSdkOnly(e) == e = "sdk.Error"

\* run(): `except (sdk.Error, BackupError) as err`
RunCatches(e) == e \in {"sdk.Error", "BackupError"}

\* main(): `except (sdk.Error, BackupError) as err`
MainCatches(e) == e \in {"sdk.Error", "BackupError"}

\* The exit status of the interpreter: main() returns normally when no
\* exception reached it or when its except clause caught it (it prints and
\* falls off the end); an exception it does not catch ends the interpreter
\* with a traceback and status 1.
ExitStatus(e) == IF e = "none" \/ MainCatches(e) THEN 0 ELSE 1

\* An exception leaves run() and reaches the try block of main().
ToMain(e) ==
    /\ pc' = "main_except"
    /\ exc' = e

(***************************************************************************)
(* Backup.__init__                                                         *)
(***************************************************************************)
\* Mutant of HasFirst: an empty vm_list is not noticed.
HasFirstAlways(n) == TRUE

\* vm_list[0] exists; otherwise IndexError, turned into BackupError
HasFirst(n) == n > 0

\* self._data_vm_service = self._get_vm_service(self._data_vm_name)
GetDataVm ==
    /\ pc = "get_data_vm"
    /\ \/ /\ ToMain("sdk.Error")              \* self._vms_service.list raised
          /\ UNCHANGED happened
       \/ \E n \in 0..MaxMatches :             \* len(vm_list)
             /\ IF HasFirst(n)
                THEN pc' = "get_agent_vm" /\ exc' = exc
                ELSE ToMain("BackupError")
             /\ happened' = IF n = 0 THEN happened \cup {"vm_missing"}
                            ELSE happened
    /\ UNCHANGED <<ovVars, envVars, devVars, deleted, fsVars, cfgVars, procVars, snapVars, diskVars, miscVars>>

\* self._agent_vm_service = self._get_vm_service(self._agent_vm_name)
GetAgentVm ==
    /\ pc = "get_agent_vm"
    /\ \/ /\ ToMain("sdk.Error")              \* self._vms_service.list raised
          /\ UNCHANGED happened
       \/ \E n \in 0..MaxMatches :             \* len(vm_list)
             /\ IF HasFirst(n)
                THEN pc' = "run_start" /\ exc' = exc
                ELSE ToMain("BackupError")
             /\ happened' = IF n = 0 THEN happened \cup {"vm_missing"}
                            ELSE happened
    /\ UNCHANGED <<ovVars, envVars, devVars, deleted, fsVars, cfgVars, procVars, snapVars, diskVars, miscVars>>

(***************************************************************************)
(* Backup.run, up to the snapshot request                                  *)
(***************************************************************************)
\* Mutant of MakeDirsRaises: os.makedirs(..., exist_ok=True).
MakeDirsExistOk(t, D) == FALSE

\* os.makedirs raises FileExistsError when the leaf directory t exists among
\* the run directories D.
MakeDirsRaises(t, D) == t \in D

\* backup_time = datetime.now(); _add_event(...) absorbs every error;
\* os.makedirs(backup_vm_date_dir) raises when the directory exists (or on
\* any other local error) and is outside every try block.
MakeDirs ==
    /\ pc = "run_start"
    /\ \/ /\ ~MakeDirsRaises(now, dirs)
          /\ dirs' = dirs \cup {now}
          /\ madeDir' = TRUE
          /\ pc' = "save_ovf"
          /\ exc' = exc
          /\ UNCHANGED happened
       \/ /\ ToMain("OSError")
          /\ happened' = IF now \in dirs THEN happened \cup {"dir_exists"}
                         ELSE happened
          /\ UNCHANGED <<dirs, madeDir>>
    /\ UNCHANGED <<ovVars, envVars, devVars, deleted, markers, cfgVars, procVars, snapVars, diskVars,
                   migrateCalls, backups_ok, retentionRan, completedEvent>>

\* What the run records of the export: ovf_data absent (AttributeError on
\* data_vm.initialization.configuration.data), the remote fetch failed, or a
\* local makedirs/open/write failed.
OvfOutcome(r) ==
    CASE r = "AttributeError" -> {"ovf_absent"}
      [] r = "sdk.Error" -> {"ovf_fetch_error"}
      [] r = "OSError" -> {"ovf_write_error"}
      [] OTHER -> {}

\* try: self._save_ovf(self._data_vm_service.get(all_content=True), dir)
\* except AttributeError: pass
SaveOvf ==
    /\ pc = "save_ovf"
    /\ \E r \in {"written", "AttributeError", "sdk.Error", "OSError"} :
          /\ CASE r \in {"written", "AttributeError"} ->
                      pc' = "snap_add" /\ exc' = exc
               [] OTHER -> ToMain(r)
          /\ happened' = happened \cup OvfOutcome(r)
    /\ UNCHANGED <<ovVars, envVars, devVars, deleted, fsVars, cfgVars, procVars, snapVars, diskVars, miscVars>>

\* snapshot = snapshots_service.add(...), outside the try block of run()
SnapshotAdd ==
    /\ pc = "snap_add"
    /\ \/ /\ snapCreates' = snapCreates + 1
          /\ pc' = "snap_enter"
          /\ exc' = exc
       \/ /\ ToMain("sdk.Error")
          /\ UNCHANGED snapCreates
    /\ UNCHANGED <<ovVars, envVars, devVars, histVars, fsVars, cfgVars, procVars, snapRemoves, snapEntered,
                   snapstatus, tries, sleeps, lastFetch, fetches, diskVars,
                   miscVars>>

(***************************************************************************)
(* AutoSnapshotService.__enter__                                           *)
(***************************************************************************)
\* Mutant of EnterStep: the loop fetches the status once and enters whatever
\* it was.
EnterStepOneFetch(status, t) ==
    IF t = 0 THEN "poll" ELSE "enter"

\* Mutant of EnterStep: on exhausting the tries the loop is left with
\* `break` instead of `raise`.
EnterStepBreak(status, t) ==
    IF status # "ok" /\ t <= maxtries THEN "poll" ELSE "enter"

\* What __enter__ does next with the last observed status and the number of
\* tries made: "enter" (the while condition is false), "raise" (tries >
\* maxtries) or "poll" (one more iteration).
EnterStep(status, t) ==
    IF status # "ok"
    THEN IF t > maxtries THEN "raise" ELSE "poll"
    ELSE "enter"

\* Mutant of FetchCaught: the status fetch is not wrapped in a try statement.
FetchCaughtNothing(e) == FALSE

\* except Exception as e: logging.info(...) around the status fetch
FetchCaught(e) == e \in Exceptions

\* Mutant of SleepsAfter: no delay once the fetch has returned ok.
SleepsAfterUnlessOk(r) == r # "ok"

\* time.sleep(2) is the last statement of every iteration, whatever the
\* fetch returned.
SleepsAfter(r) == r \in {"locked", "ok", "error"}

\* One evaluation of the while condition and, when it holds, one iteration.
\* A status fetch that raises leaves snapstatus as it was.  An exception
\* raised by __enter__ leaves the with statement without __exit__ being
\* called and goes to the except clause of run().
SnapEnterPoll ==
    /\ pc = "snap_enter"
    /\ LET step == EnterStep(snapstatus, tries) IN
       CASE step = "raise" ->
                 /\ pc' = "run_except"
                 /\ exc' = "SnapshotError"
                 /\ UNCHANGED <<snapstatus, tries, sleeps, snapEntered,
                                lastFetch, fetches, happened>>
         [] step = "poll" ->
                 /\ \E r \in {"locked", "ok", "error"} :
                       /\ lastFetch' = r
                       /\ happened' = IF r = "error"
                                      THEN happened \cup {"fetch_error"}
                                      ELSE happened
                       /\ IF r = "error" /\ ~FetchCaught("sdk.Error")
                          THEN /\ pc' = "run_except"
                               /\ exc' = "sdk.Error"
                               /\ UNCHANGED <<snapstatus, tries, sleeps>>
                          ELSE /\ snapstatus' = IF r = "error" THEN snapstatus
                                                ELSE r
                               /\ tries' = tries + 1
                               /\ sleeps' = IF SleepsAfter(r) THEN sleeps + 1
                                            ELSE sleeps
                               /\ UNCHANGED <<pc, exc>>
                 /\ fetches' = fetches + 1
                 /\ UNCHANGED snapEntered
         [] step = "enter" ->
                 /\ pc' = "snap_entered"
                 /\ snapEntered' = TRUE
                 /\ UNCHANGED <<exc, snapstatus, tries, sleeps, lastFetch,
                                fetches, happened>>
    /\ UNCHANGED <<ovVars, envVars, devVars, deleted, fsVars, cfgVars, procVars, snapCreates, snapRemoves,
                   diskVars, miscVars>>

\* __enter__ returns snapshot_service; its locals go out of scope.
SnapEnterReturn ==
    /\ pc = "snap_entered"
    /\ pc' = IF migrate THEN "migrate" ELSE "disks_begin"
    /\ tries' = 0
    /\ sleeps' = 0
    /\ fetches' = 0
    /\ lastFetch' = "none"
    /\ UNCHANGED <<ovVars, envVars, devVars, histVars, exc, fsVars, cfgVars, procVars, snapCreates, snapRemoves,
                   snapEntered, snapstatus, diskVars, miscVars>>

(***************************************************************************)
(* Backup._migrate_agent_vm, called under `except Exception` (absorbed)    *)
(***************************************************************************)
\* Mutant of MigrateCaught: the call is not wrapped in a try statement.
MigrateCaughtNothing(e) == FALSE

\* except Exception as e: logging.error(...)
MigrateCaught(e) == e \in Exceptions

\* How the statement `try: self._migrate_agent_vm() except Exception` ends
\* when the call raised e: absorbed, or out of the snapshot's with block.
MigrateRaised(e) ==
    /\ happened' = happened \cup {"migrate_error"}
    /\ IF MigrateCaught(e)
       THEN pc' = "disks_begin" /\ exc' = exc
       ELSE pc' = "snap_exit" /\ exc' = e

\* The host comparison and self._agent_vm_service.migrate(...)
MigrateAgentVm ==
    /\ pc = "migrate"
    /\ \E r \in {"same_host", "get_error", "migrating", "migrate_error"} :
          /\ migrateCalls' = IF r \in {"migrating", "migrate_error"}
                             THEN migrateCalls + 1 ELSE migrateCalls
          /\ IF r \in {"get_error", "migrate_error"}
             THEN MigrateRaised("sdk.Error")
             ELSE /\ pc' = IF r = "migrating" THEN "migrate_poll"
                           ELSE "disks_begin"
                  /\ UNCHANGED <<exc, happened>>
    /\ UNCHANGED <<ovVars, envVars, devVars, deleted, fsVars, cfgVars, procVars, snapVars, diskVars,
                   madeDir, backups_ok, retentionRan, completedEvent>>

\* while self._agent_vm_service.get().status == types.VmStatus.MIGRATING
MigratePoll ==
    /\ pc = "migrate_poll"
    /\ \E r \in {"migrating", "up", "error"} :
          IF r = "error"
          THEN MigrateRaised("sdk.Error")
          ELSE /\ pc' = IF r = "migrating" THEN "migrate_poll"
                        ELSE "disks_begin"
               /\ UNCHANGED <<exc, happened>>
    /\ UNCHANGED <<ovVars, envVars, devVars, deleted, fsVars, cfgVars, procVars, snapVars, diskVars, miscVars>>

(***************************************************************************)
(* Backup._backup_snapshot_disks                                           *)
(***************************************************************************)
\* Mutant of AfterAttachment: an exception leaving the attachment's with
\* block goes straight to the except clause of run(), as if the snapshot
\* were not held by a with statement.
AfterAttachmentNoSnapExit(e, d, n) ==
    IF e = "none" THEN IF d < n THEN "attach_add" ELSE "snap_exit"
    ELSE "run_except"

\* Mutant of AfterAttachment: a failed disk is skipped and the loop goes on
\* with the next disk of the listing.
AfterAttachmentKeepsGoing(e, d, n) ==
    IF d < n THEN "attach_add" ELSE "snap_exit"

\* Where the for loop goes after the with block of disk d ended with the
\* pending exception e: the next disk, or out of the snapshot's with block.
AfterAttachment(e, d, n) ==
    IF e = "none" /\ d < n THEN "attach_add" ELSE "snap_exit"

\* snapshot_service.get() and disks_service.list()
DisksBegin ==
    /\ pc = "disks_begin"
    /\ \/ \E n \in 0..MaxDisks :
             /\ nDisks' = n
             /\ disk' = IF n > 0 THEN 1 ELSE 0
             /\ pc' = IF n > 0 THEN "attach_add" ELSE "snap_exit"
             /\ exc' = exc
       \/ /\ pc' = "snap_exit"
          /\ exc' = "sdk.Error"
          /\ UNCHANGED <<nDisks, disk>>
    /\ UNCHANGED <<ovVars, envVars, devVars, histVars, fsVars, cfgVars, procVars, snapVars, attached,
                   attachCreated, attachRemoves, find_tries, copied,
                   copyFailed, input_file, miscVars>>

\* attachment = attachments_service.add(...); AutoAttachmentService.__enter__
\* only obtains the attachment_service locator.
AttachAdd ==
    /\ pc = "attach_add"
    /\ \/ /\ attached' = attached \cup {disk}
          /\ attachCreated' = attachCreated \cup {disk}
          /\ find_tries' = 0
          /\ pc' = "find_disk"
          /\ exc' = exc
       \/ /\ pc' = "snap_exit"
          /\ exc' = "sdk.Error"
          /\ UNCHANGED <<attached, attachCreated, find_tries>>
    /\ UNCHANGED <<ovVars, envVars, devVars, histVars, fsVars, cfgVars, procVars, snapVars, nDisks, disk,
                   attachRemoves, copied, copyFailed, input_file, miscVars>>

\* attachment.disk.id of disk d: a string longer than the serial, here a
\* common stem followed by two characters that tell the disks apart.
Stem == [i \in 1..(PrefixLen - 1) |-> 0]
DiskId(d) == Stem \o <<d \div 2, d % 2>>

\* s[:n]
Take(s, n) == SubSeq(s, 1, IF Len(s) < n THEN Len(s) ELSE n)

\* Contents of /sys/block/<v>/serial: a data disk shows the leading
\* characters of its id, the agent's own disk (-1) shows none of them.
Serial(v) == IF v \in Disks THEN Take(DiskId(v), PrefixLen) ELSE <<>>

\* The block devices in V whose serial == attachment.disk.id[:20]
Match(V, d) == {v \in V : Serial(v) = Take(DiskId(d), PrefixLen)}

\* while tries < maxtries, off by one: a seventh attempt is made.
FindContinuesOneMore(t) == t <= find_maxtries

\* while tries < maxtries
FindContinues(t) == t < find_maxtries

\* Mutant of FindDataDisk: the lookup runs before the with statement, so its
\* BackupError skips AutoAttachmentService.__exit__.
FindDataDiskUnguarded ==
    /\ pc = "find_disk"
    /\ IF FindContinues(find_tries)
       THEN /\ find_tries' = find_tries + 1
            /\ \E V \in SUBSET (attached \cup {-1}) :
                  IF Match(V, disk) # {}
                  THEN /\ \E v \in Match(V, disk) : input_file' = v
                       /\ pc' = "copy_disk"
                  ELSE /\ UNCHANGED input_file
                       /\ pc' = "find_disk"
            /\ exc' = exc
       ELSE /\ pc' = "snap_exit"
            /\ exc' = "BackupError"
            /\ UNCHANGED <<find_tries, input_file>>
    /\ UNCHANGED <<ovVars, envVars, devVars, histVars, fsVars, cfgVars, procVars, snapVars, nDisks, disk, attached,
                   attachCreated, attachRemoves, copied, copyFailed, miscVars>>

\* Backup._find_data_disk: the while condition and one iteration of the loop
FindDataDisk ==
    /\ pc = "find_disk"
    /\ IF FindContinues(find_tries)
       THEN /\ find_tries' = find_tries + 1
            /\ \E V \in SUBSET (attached \cup {-1}) :
                  IF Match(V, disk) # {}
                  THEN /\ \E v \in Match(V, disk) : input_file' = v
                       /\ pc' = "copy_disk"
                  ELSE /\ UNCHANGED input_file
                       /\ pc' = "find_disk"
            /\ exc' = exc
       ELSE /\ pc' = "attach_exit"
            /\ exc' = "BackupError"
            /\ UNCHANGED <<find_tries, input_file>>
    /\ UNCHANGED <<ovVars, envVars, devVars, histVars, fsVars, cfgVars, procVars, snapVars, nDisks, disk, attached,
                   attachCreated, attachRemoves, copied, copyFailed, miscVars>>

\* Backup._copy_disk after the device was found: os.makedirs(output_dir),
\* dd, the returncode test, the .meta file
CopyDisk ==
    /\ pc = "copy_disk"
    /\ pc' = "attach_exit"
    /\ \E r \in {"copied", "dd_failed", "OSError"} :
          /\ copied' = IF r = "copied" THEN copied \cup {disk} ELSE copied
          /\ copyFailed' = IF r = "dd_failed" THEN copyFailed \cup {disk}
                           ELSE copyFailed
          /\ exc' = CASE r = "copied" -> exc
                      [] r = "dd_failed" -> "BackupError"
                      [] r = "OSError" -> "OSError"
    /\ find_tries' = 0
    /\ input_file' = 0
    /\ UNCHANGED <<ovVars, envVars, devVars, histVars, fsVars, cfgVars, procVars, snapVars, nDisks, disk, attached,
                   attachCreated, attachRemoves, miscVars>>

\* Mutant of Detached: remove() returns at once and the attachment is still
\* there when the loop goes on.
DetachedLater(ok, S, d) == S

\* The attachments left after self._attachment_service.remove(wait=True) of
\* disk d: the call returns once the attachment is gone, or raises.
Detached(ok, S, d) == IF ok THEN S \ {d} ELSE S

\* AutoAttachmentService.__exit__: runs however the body ended; an exception
\* of remove() replaces the pending one.
AttachExit ==
    /\ pc = "attach_exit"
    /\ attachRemoves' = [attachRemoves EXCEPT ![disk] = @ + 1]
    /\ \E ok \in BOOLEAN :
          /\ attached' = Detached(ok, attached, disk)
          /\ exc' = IF ok THEN exc ELSE "sdk.Error"
          /\ pc' = AfterAttachment(exc', disk, nDisks)
          /\ disk' = IF pc' = "attach_add" THEN disk + 1 ELSE disk
    /\ find_tries' = 0
    /\ input_file' = 0
    /\ UNCHANGED <<ovVars, envVars, devVars, histVars, fsVars, cfgVars, procVars, snapVars, nDisks, attachCreated,
                   copied, copyFailed, miscVars>>

(***************************************************************************)
(* AutoSnapshotService.__exit__                                            *)
(***************************************************************************)
\* Mutant of AfterWith: the statements after the with block run like a
\* finally clause, whether or not an exception is pending.
AfterWithAlways(e) == "retention"

\* Where run() continues when the with block is left with pending exception e
AfterWith(e) == IF e = "none" THEN "retention" ELSE "run_except"

\* What a status lookup of __exit__ may give: anything, unless the remote
\* keeps the snapshot locked for ever.
RemovalStatuses ==
    IF stuck THEN {"locked"} ELSE {"locked", "ok", "error"}

\* self._snapshot_service.remove(wait=True); an exception of remove()
\* leaves __exit__ and replaces the pending one.
SnapExitRemove ==
    /\ pc = "snap_exit"
    /\ snapRemoves' = snapRemoves + 1
    /\ \/ /\ pc' = "snap_exit_get"
          /\ exc' = exc
          /\ stuck' \in BOOLEAN
       \/ /\ pc' = "run_except"
          /\ exc' = "sdk.Error"
          /\ UNCHANGED stuck
    /\ UNCHANGED <<ovVars, devVars, histVars, fsVars, cfgVars, procVars, snapCreates, snapEntered,
                   snapstatus, tries, sleeps, lastFetch, fetches, diskVars,
                   miscVars>>

\* snap = self._snapshot_service.get(), outside the try of the wait loop
SnapExitGet ==
    /\ pc = "snap_exit_get"
    /\ \/ \E r \in RemovalStatuses \ {"error"} :
             /\ pc' = IF r = "locked" THEN "snap_exit_wait" ELSE AfterWith(exc)
             /\ exc' = exc
       \/ /\ "error" \in RemovalStatuses
          /\ pc' = "run_except"
          /\ exc' = "sdk.Error"
    /\ UNCHANGED <<ovVars, envVars, devVars, histVars, fsVars, cfgVars, procVars, snapVars, diskVars, miscVars>>

\* while snap.snapshot_status == LOCKED: try: snap = get() except: break
SnapExitWait ==
    /\ pc = "snap_exit_wait"
    /\ \E r \in RemovalStatuses :
          pc' = IF r = "locked" THEN "snap_exit_wait" ELSE AfterWith(exc)
    /\ UNCHANGED <<ovVars, envVars, devVars, histVars, exc, fsVars, cfgVars, procVars, snapVars, diskVars, miscVars>>

(***************************************************************************)
(* Backup.run after the with block                                         *)
(***************************************************************************)
\* except (sdk.Error, BackupError): self._remove_dir(backup_vm_date_dir); raise
\* Any other exception passes the clause untouched.
RunExcept ==
    /\ pc = "run_except"
    /\ dirs' = IF RunCatches(exc) THEN dirs \ {now} ELSE dirs
    /\ ToMain(exc)
    /\ UNCHANGED <<ovVars, envVars, devVars, histVars, markers, cfgVars, procVars, snapVars, diskVars, miscVars>>

\* Mutant of SortedSeq: the markers in decreasing order, so that pop(0)
\* takes the newest.
RECURSIVE SortedSeqNewestFirst(_)
SortedSeqNewestFirst(S) ==
    IF S = {} THEN <<>>
    ELSE LET m == CHOOSE x \in S : \A y \in S : x >= y
         IN <<m>> \o SortedSeqNewestFirst(S \ {m})

\* sorted(glob.glob(backup_vm_dir + "/*.OK"), key=str.lower): the markers in
\* increasing order of their timestamp
RECURSIVE SortedSeq(_)
SortedSeq(S) ==
    IF S = {} THEN <<>>
    ELSE LET m == CHOOSE x \in S : \A y \in S : x <= y
         IN <<m>> \o SortedSeq(S \ {m})

\* The while condition of _remove_old_backups
TooMany(list, keep) == Len(list) > keep

\* _remove_old_backups: backups_ok = sorted(glob.glob(...))
RemoveOldBackups ==
    /\ pc = "retention"
    /\ backups_ok' = SortedSeq(markers)
    /\ retentionRan' = TRUE
    /\ pc' = "retention_loop"
    /\ UNCHANGED <<ovVars, envVars, devVars, histVars, exc, fsVars, cfgVars, procVars, snapVars, diskVars,
                   madeDir, migrateCalls, completedEvent>>

\* One evaluation of the while condition and one iteration: pop(0), unlink
\* the marker, rmtree the directory.  Either call may raise OSError, which
\* the except clause of run() does not catch.
RemoveOldBackupsLoop ==
    /\ pc = "retention_loop"
    /\ IF TooMany(backups_ok, num_backups)
       THEN LET delfile == Head(backups_ok) IN
            /\ backups_ok' = Tail(backups_ok)
            /\ \/ /\ delfile \in markers
                  /\ delfile \in dirs
                  /\ markers' = markers \ {delfile}
                  /\ dirs' = dirs \ {delfile}
                  /\ deleted' = deleted \cup {delfile}
                  /\ UNCHANGED <<pc, exc>>
               \/ /\ UNCHANGED <<dirs, markers, deleted>>  \* os.unlink raised
                  /\ pc' = "run_except"
                  /\ exc' = "OSError"
               \/ /\ delfile \in markers               \* shutil.rmtree raised
                  /\ markers' = markers \ {delfile}
                  /\ deleted' = deleted \cup {delfile}
                  /\ UNCHANGED dirs
                  /\ pc' = "run_except"
                  /\ exc' = "OSError"
       ELSE /\ pc' = "symlinks"
            /\ UNCHANGED <<exc, dirs, markers, backups_ok, deleted>>
    /\ UNCHANGED <<ovVars, envVars, devVars, happened, cfgVars, procVars, snapVars, diskVars, madeDir,
                   migrateCalls, retentionRan, completedEvent>>

\* _create_symlinks under `except Exception`: no error leaves the block
CreateSymlinks ==
    /\ pc = "symlinks"
    /\ pc' = "write_ok"
    /\ backups_ok' = <<>>
    /\ UNCHANGED <<ovVars, envVars, devVars, histVars, exc, fsVars, cfgVars, procVars, snapVars, diskVars,
                   madeDir, migrateCalls, retentionRan, completedEvent>>

\* with open(ok_file, 'w') as ok: ok.write(...)
WriteOkFile ==
    /\ pc = "write_ok"
    /\ \/ /\ markers' = markers \cup {now}
          /\ pc' = "completed_event"
          /\ exc' = exc
       \/ /\ pc' = "run_except"
          /\ exc' = "OSError"
          /\ UNCHANGED markers
    /\ UNCHANGED <<ovVars, envVars, devVars, histVars, dirs, cfgVars, procVars, snapVars, diskVars, miscVars>>

\* self._add_event("Backup of VM ... completed succesfully."); run() returns
CompletedEvent ==
    /\ pc = "completed_event"
    /\ completedEvent' = TRUE
    /\ pc' = "main_except"
    /\ UNCHANGED <<ovVars, envVars, devVars, histVars, exc, fsVars, cfgVars, procVars, snapVars, diskVars,
                   madeDir, migrateCalls, backups_ok, retentionRan>>

(***************************************************************************)
(* main()                                                                  *)
(***************************************************************************)
\* The end of the try statement of main() and of the process
MainEnd ==
    /\ pc = "main_except"
    /\ exitCode' = ExitStatus(exc)
    /\ runError' = exc
    /\ pc' = "exited"
    /\ exc' = "none"
    /\ UNCHANGED <<ovVars, envVars, devVars, histVars, runs, now, fsVars, cfgVars, snapVars, diskVars, miscVars>>

\* A new process begins at `start`, in the same minute or in a later one
Restart(start) ==
    /\ runs < MaxRuns
    /\ runs' = runs + 1
    /\ \E t \in {now, now + 1} : now' = t
    /\ pc' = start
    /\ exc' = "none"
    /\ exitCode' = -1
    /\ runError' = "none"
    /\ madeDir' = FALSE
    /\ snapCreates' = 0
    /\ snapRemoves' = 0
    /\ snapEntered' = FALSE
    /\ snapstatus' = "locked"
    /\ tries' = 0
    /\ sleeps' = 0
    /\ migrateCalls' = 0
    /\ nDisks' = 0
    /\ disk' = 0
    /\ attached' = {}
    /\ attachCreated' = {}
    /\ attachRemoves' = [d \in Disks |-> 0]
    /\ find_tries' = 0
    /\ copied' = {}
    /\ copyFailed' = {}
    /\ backups_ok' = <<>>
    /\ retentionRan' = FALSE
    /\ completedEvent' = FALSE
    /\ lastFetch' = "none"
    /\ fetches' = 0
    /\ input_file' = 0
    /\ happened' = {}
    /\ deleted' = {}
    /\ stuck' = FALSE
    /\ UNCHANGED <<ovVars, devVars, fsVars, cfgVars>>

\* The tool is started again
NewInvocation ==
    /\ pc = "exited"
    /\ Restart("get_data_vm")

Next ==
    \/ GetDataVm
    \/ GetAgentVm
    \/ MakeDirs
    \/ SaveOvf
    \/ SnapshotAdd
    \/ SnapEnterPoll
    \/ SnapEnterReturn
    \/ MigrateAgentVm
    \/ MigratePoll
    \/ DisksBegin
    \/ AttachAdd
    \/ FindDataDisk
    \/ CopyDisk
    \/ AttachExit
    \/ SnapExitRemove
    \/ SnapExitGet
    \/ SnapExitWait
    \/ RunExcept
    \/ RemoveOldBackups
    \/ RemoveOldBackupsLoop
    \/ CreateSymlinks
    \/ WriteOkFile
    \/ CompletedEvent
    \/ MainEnd
    \/ NewInvocation

Spec == Init /\ [][Next]_vars

(***************************************************************************)
(* backupvm2.py: Backup._find_data_device                                  *)
(***************************************************************************)
\* The disks whose ids may show up on the agent VM.  DiskId gives disks 2i
\* and 2i+1 the same first 20 characters.
AllDisks == 0..MaxIds

\* A by-id entry or a block device: the whole disk (part = 0) or one of its
\* partitions.
Entries == [disk : AllDisks, part : 0..MaxParts]

\* The file name of a by-id entry: a bus tag (7), the serial of the disk and,
\* for a partition, the suffix -part<n> (8, n).
EntryName(e) ==
    <<7>> \o Take(DiskId(e.disk), PrefixLen)
          \o (IF e.part > 0 THEN <<8, e.part>> ELSE <<>>)

\* The pattern '*<pat>*' matches name: pat occurs somewhere inside name.
Contains(name, pat) ==
    \E i \in 0..(Len(name) - Len(pat)) :
        SubSeq(name, i + 1, i + Len(pat)) = pat

\* Mutant of IdPrefix: one character less of the id is used.
IdPrefixShort(d) == Take(DiskId(d), PrefixLen - 1)

\* attachment.disk.id[:20]
IdPrefix(d) == Take(DiskId(d), PrefixLen)

\* glob.glob('/dev/disk/by-id/*{}*'.format(attachment.disk.id[:20]))
Glob(d) == {e \in by_id : Contains(EntryName(e), IdPrefix(d))}

\* The lines printed by lsblk -sln -o name <entry>: the device the entry
\* links to, followed by the devices it lies on.
Lsblk(e) ==
    IF e.part > 0 THEN <<e, [disk |-> e.disk, part |-> 0]>> ELSE <<e>>

\* lines[-1]
Last(lines) == lines[Len(lines)]

\* udev adds the entries of a disk that appears with p partitions.
Plug ==
    /\ devpc = "idle"
    /\ \E d \in AllDisks, p \in 0..MaxParts :
          /\ \A e \in by_id : e.disk # d
          /\ by_id' = by_id \cup {e \in Entries : e.disk = d /\ e.part <= p}
    /\ UNCHANGED <<mainVars, attachment_id, device, devpc>>

\* udev removes the entries of a disk that disappears.
Unplug ==
    /\ devpc = "idle"
    /\ \E d \in AllDisks :
          /\ \E e \in by_id : e.disk = d
          /\ by_id' = {e \in by_id : e.disk # d}
    /\ UNCHANGED <<mainVars, attachment_id, device, devpc>>

\* Backup._find_data_device(attachment): files[0] is any of the matches
\* (glob returns them in directory order); lsblk may fail.
FindDataDevice ==
    /\ devpc = "idle"
    /\ \E d \in AllDisks :
          /\ attachment_id' = d
          /\ IF Glob(d) = {}
             THEN /\ devpc' = "raised"
                  /\ device' = NoDevice
             ELSE \E disk_by_id \in Glob(d) :
                     \/ /\ devpc' = "raised"         \* lsblk.returncode != 0
                        /\ device' = NoDevice
                     \/ /\ devpc' = "returned"
                        /\ device' = Last(Lsblk(disk_by_id))
    /\ UNCHANGED <<mainVars, by_id>>

\* input_file = cls._find_data_device(attachment) has been used, or the
\* BackupError has left _copy_disk.
DeviceDone ==
    /\ devpc # "idle"
    /\ devpc' = "idle"
    /\ device' = NoDevice
    /\ UNCHANGED <<mainVars, by_id, attachment_id>>

NextDevice ==
    \/ Plug
    \/ Unplug
    \/ FindDataDevice
    \/ DeviceDone

SpecDevice == Init /\ [][NextDevice]_vars

(***************************************************************************)
(* backupvm2.py: Backup.run.  The variant has no try statement in run()    *)
(* and none around it, keeps no .OK markers, always migrates, and runs     *)
(* _remove_old_backups inside the snapshot's with block.                   *)
(***************************************************************************)
\* An exception e leaves run() and ends the process.
V2Raise(e) == pc' = "v2_end" /\ exc' = e

\* backup_time = datetime.now(); os.makedirs(backup_vm_date_dir)
V2MakeDirs ==
    /\ pc = "v2_run_start"
    /\ \/ /\ now \notin dirs
          /\ dirs' = dirs \cup {now}
          /\ madeDir' = TRUE
          /\ pc' = "v2_snap_add"
          /\ exc' = exc
       \/ /\ V2Raise("OSError")
          /\ UNCHANGED <<dirs, madeDir>>
    /\ UNCHANGED <<ovVars, envVars, devVars, histVars, markers, cfgVars, procVars, snapVars,
                   diskVars, migrateCalls, backups_ok, retentionRan,
                   completedEvent>>

\* try: self._save_ovf(...) except AttributeError: pass; then
\* snapshots_service.add(...)
V2SnapshotAdd ==
    /\ pc = "v2_snap_add"
    /\ \/ /\ snapCreates' = snapCreates + 1
          /\ pc' = "v2_snap_enter"
          /\ exc' = exc
       \/ /\ \E e \in {"sdk.Error", "OSError"} : V2Raise(e)
          /\ UNCHANGED snapCreates
    /\ UNCHANGED <<ovVars, envVars, devVars, histVars, fsVars, cfgVars, procVars, snapRemoves,
                   snapEntered, snapstatus, tries, sleeps, lastFetch, fetches,
                   diskVars, miscVars>>

\* AutoSnapshotService.__enter__: while get().snapshot_status != OK:
\* time.sleep(1).  A get() that raises leaves __enter__, and __exit__ is not
\* called.
V2SnapEnter ==
    /\ pc = "v2_snap_enter"
    /\ \E r \in {"locked", "ok", "error"} :
          /\ snapstatus' = IF r = "error" THEN snapstatus ELSE r
          /\ snapEntered' = (r = "ok")
          /\ CASE r = "locked" -> UNCHANGED <<pc, exc>>
               [] r = "ok" -> pc' = "v2_migrate" /\ exc' = exc
               [] r = "error" -> V2Raise("sdk.Error")
    /\ UNCHANGED <<ovVars, envVars, devVars, histVars, fsVars, cfgVars, procVars, snapCreates,
                   snapRemoves, tries, sleeps, lastFetch, fetches, diskVars,
                   miscVars>>

\* self._migrate_agent_vm(), not wrapped in a try statement
V2Migrate ==
    /\ pc = "v2_migrate"
    /\ \E r \in {"same_host", "migrated", "error"} :
          /\ migrateCalls' = IF r = "migrated" THEN migrateCalls + 1
                             ELSE migrateCalls
          /\ IF r = "error"
             THEN pc' = "v2_snap_exit" /\ exc' = "sdk.Error"
             ELSE pc' = "v2_disks_begin" /\ exc' = exc
    /\ UNCHANGED <<ovVars, envVars, devVars, histVars, fsVars, cfgVars, procVars, snapVars,
                   diskVars, madeDir, backups_ok, retentionRan,
                   completedEvent>>

\* snapshot_service.get() and disks_service.list()
V2DisksBegin ==
    /\ pc = "v2_disks_begin"
    /\ \/ \E n \in 0..MaxDisks :
             /\ nDisks' = n
             /\ disk' = IF n > 0 THEN 1 ELSE 0
             /\ pc' = IF n > 0 THEN "v2_attach_add" ELSE "v2_retention"
             /\ exc' = exc
       \/ /\ pc' = "v2_snap_exit"
          /\ exc' = "sdk.Error"
          /\ UNCHANGED <<nDisks, disk>>
    /\ UNCHANGED <<ovVars, envVars, devVars, histVars, fsVars, cfgVars, procVars, snapVars,
                   attached, attachCreated, attachRemoves, find_tries, copied,
                   copyFailed, input_file, miscVars>>

\* attachment = attachments_service.add(...)
V2AttachAdd ==
    /\ pc = "v2_attach_add"
    /\ \/ /\ attached' = attached \cup {disk}
          /\ attachCreated' = attachCreated \cup {disk}
          /\ pc' = "v2_copy_disk"
          /\ exc' = exc
       \/ /\ pc' = "v2_snap_exit"
          /\ exc' = "sdk.Error"
          /\ UNCHANGED <<attached, attachCreated>>
    /\ UNCHANGED <<ovVars, envVars, devVars, histVars, fsVars, cfgVars, procVars, snapVars,
                   nDisks, disk, attachRemoves, find_tries, copied, copyFailed,
                   input_file, miscVars>>

\* Backup._copy_disk: _find_data_device may raise BackupError, Popen may
\* raise OSError; a non-zero return code of dd is logged and nothing more.
V2CopyDisk ==
    /\ pc = "v2_copy_disk"
    /\ pc' = "v2_attach_exit"
    /\ \E r \in {"copied", "dd_failed", "BackupError", "OSError"} :
          /\ copied' = IF r = "copied" THEN copied \cup {disk} ELSE copied
          /\ copyFailed' = IF r = "dd_failed" THEN copyFailed \cup {disk}
                           ELSE copyFailed
          /\ exc' = IF r \in {"copied", "dd_failed"} THEN exc ELSE r
    /\ UNCHANGED <<ovVars, envVars, devVars, histVars, fsVars, cfgVars, procVars, snapVars,
                   nDisks, disk, attached, attachCreated, attachRemoves,
                   find_tries, input_file, miscVars>>

\* AutoAttachmentService.__exit__: remove(wait=True); then the next disk,
\* the statement after the loop, or out of the snapshot's with block.
V2AttachExit ==
    /\ pc = "v2_attach_exit"
    /\ attachRemoves' = [attachRemoves EXCEPT ![disk] = @ + 1]
    /\ \E ok \in BOOLEAN :
          /\ attached' = IF ok THEN attached \ {disk} ELSE attached
          /\ exc' = IF ok THEN exc ELSE "sdk.Error"
          /\ pc' = IF exc' # "none" THEN "v2_snap_exit"
                   ELSE IF disk < nDisks THEN "v2_attach_add"
                   ELSE "v2_retention"
          /\ disk' = IF pc' = "v2_attach_add" THEN disk + 1 ELSE disk
    /\ UNCHANGED <<ovVars, envVars, devVars, histVars, fsVars, cfgVars, procVars, snapVars,
                   nDisks, attachCreated, find_tries, copied, copyFailed,
                   input_file, miscVars>>

\* while len(dir_list) > self._num_backups: rm -rf dir_list.pop(0)
RECURSIVE Rotate(_, _)
Rotate(dir_list, keep) ==
    IF Len(dir_list) > keep THEN Rotate(Tail(dir_list), keep) ELSE dir_list

\* _remove_old_backups of backupvm2: every entry of the VM's directory
\* counts, in name order.
V2RemoveOldBackups ==
    /\ pc = "v2_retention"
    /\ LET kept == Rotate(SortedSeq(dirs), v2_num_backups)
       IN dirs' = {kept[i] : i \in 1..Len(kept)}
    /\ retentionRan' = TRUE
    /\ pc' = "v2_snap_exit"
    /\ UNCHANGED <<ovVars, envVars, devVars, histVars, exc, markers, cfgVars, procVars,
                   snapVars, diskVars, madeDir, migrateCalls, backups_ok,
                   completedEvent>>

\* AutoSnapshotService.__exit__: self._snapshot_service.remove(wait=True)
V2SnapExit ==
    /\ pc = "v2_snap_exit"
    /\ snapRemoves' = snapRemoves + 1
    /\ pc' = "v2_end"
    /\ \E ok \in BOOLEAN : exc' = IF ok THEN exc ELSE "sdk.Error"
    /\ UNCHANGED <<ovVars, envVars, devVars, histVars, fsVars, cfgVars, procVars, snapCreates,
                   snapEntered, snapstatus, tries, sleeps, lastFetch, fetches,
                   diskVars, miscVars>>

\* b.run() returns or an exception ends the process with a traceback
V2End ==
    /\ pc = "v2_end"
    /\ exitCode' = IF exc = "none" THEN 0 ELSE 1
    /\ runError' = exc
    /\ pc' = "exited"
    /\ exc' = "none"
    /\ UNCHANGED <<ovVars, envVars, devVars, histVars, runs, now, fsVars, cfgVars, snapVars,
                   diskVars, miscVars>>

\* backupvm2.py is started again
V2NewInvocation ==
    /\ pc = "exited"
    /\ Restart("v2_run_start")

InitV2 ==
    /\ pc = "v2_run_start"
    /\ FreshLocals
    /\ InitRest

NextV2 ==
    \/ V2MakeDirs
    \/ V2SnapshotAdd
    \/ V2SnapEnter
    \/ V2Migrate
    \/ V2DisksBegin
    \/ V2AttachAdd
    \/ V2CopyDisk
    \/ V2AttachExit
    \/ V2RemoveOldBackups
    \/ V2SnapExit
    \/ V2End
    \/ V2NewInvocation

SpecV2 == InitV2 /\ [][NextV2]_vars

(***************************************************************************)
(* The process keeps running: whenever a step that changes the state is    *)
(* possible, one is eventually taken.                                      *)
(***************************************************************************)
FairSpec == Spec /\ WF_vars(Next)

(***************************************************************************)
(* backupvm.py: two processes of the tool at work on the directory of one  *)
(* VM at the same time.  Only the statements of run() that touch the       *)
(* directory are steps; each file system call is a step of its own.        *)
(***************************************************************************)
\* Everything the overlapping runs leave alone
restVars == <<cfgVars, snapVars, diskVars, miscVars, histVars, envVars, devVars,
              pc, exc, exitCode, runError>>

\* The timestamps of the runs that are in progress
InProgress == {otime[q] : q \in {r \in Procs : opc[r] # "idle"}}

\* Mutant of MarkersAfterMakeDirs: the .OK file is written as soon as the run
\* directory exists.
MarkersWrittenEarly(M, t) == M \cup {t}

\* The markers after os.makedirs(backup_vm_date_dir) of run t: the .OK file
\* is not written before the end of the run.
MarkersAfterMakeDirs(M, t) == M

\* The clock reaches the next minute
OTick ==
    /\ now < MaxStarts
    /\ now' = now + 1
    /\ UNCHANGED <<restVars, ovVars, fsVars, runs>>

\* A process starts: backup_time = datetime.now(); os.makedirs(...)
OStart(p) ==
    /\ opc[p] = "idle"
    /\ runs <= MaxStarts
    /\ runs' = runs + 1
    /\ IF MakeDirsRaises(now, dirs)
       THEN UNCHANGED <<fsVars, ovVars>>
       ELSE /\ dirs' = dirs \cup {now}
            /\ markers' = MarkersAfterMakeDirs(markers, now)
            /\ opc' = [opc EXCEPT ![p] = "running"]
            /\ otime' = [otime EXCEPT ![p] = now]
            /\ everMarked' = everMarked \cup markers'
            /\ UNCHANGED olist
    /\ UNCHANGED <<restVars, now>>

\* The export, the snapshot or a copy raised: the except clause removes the
\* run's own directory (sdk.Error, BackupError), or the exception passes it.
OAbort(p) ==
    /\ opc[p] = "running"
    /\ \E e \in {"sdk.Error", "BackupError", "SnapshotError", "OSError"} :
          dirs' = IF RunCatches(e) THEN dirs \ {otime[p]} ELSE dirs
    /\ opc' = [opc EXCEPT ![p] = "idle"]
    /\ otime' = [otime EXCEPT ![p] = 0]
    /\ UNCHANGED <<restVars, markers, olist, everMarked, now, runs>>

\* The with block ended well: backups_ok = sorted(glob.glob(... "/*.OK"))
OGlob(p) ==
    /\ opc[p] = "running"
    /\ olist' = [olist EXCEPT ![p] = SortedSeq(markers)]
    /\ opc' = [opc EXCEPT ![p] = "retention"]
    /\ UNCHANGED <<restVars, fsVars, otime, everMarked, now, runs>>

\* The while condition; delfile = backups_ok.pop(0); os.unlink(delfile).
\* unlink raises OSError, which nothing catches, when the other process has
\* removed the marker already.
OUnlink(p) ==
    /\ opc[p] = "retention"
    /\ IF TooMany(olist[p], num_backups)
       THEN IF Head(olist[p]) \in markers
            THEN /\ markers' = markers \ {Head(olist[p])}
                 /\ opc' = [opc EXCEPT ![p] = "rmtree"]
                 /\ UNCHANGED <<otime, olist>>
            ELSE /\ opc' = [opc EXCEPT ![p] = "idle"]
                 /\ otime' = [otime EXCEPT ![p] = 0]
                 /\ olist' = [olist EXCEPT ![p] = <<>>]
                 /\ UNCHANGED markers
       ELSE /\ opc' = [opc EXCEPT ![p] = "write_ok"]
            /\ olist' = [olist EXCEPT ![p] = <<>>]
            /\ UNCHANGED <<markers, otime>>
    /\ UNCHANGED <<restVars, dirs, everMarked, now, runs>>

\* deldir = delfile[:-3]; shutil.rmtree(deldir)
ORmtree(p) ==
    /\ opc[p] = "rmtree"
    /\ IF Head(olist[p]) \in dirs
       THEN /\ dirs' = dirs \ {Head(olist[p])}
            /\ opc' = [opc EXCEPT ![p] = "retention"]
            /\ olist' = [olist EXCEPT ![p] = Tail(olist[p])]
            /\ UNCHANGED otime
       ELSE /\ opc' = [opc EXCEPT ![p] = "idle"]
            /\ otime' = [otime EXCEPT ![p] = 0]
            /\ olist' = [olist EXCEPT ![p] = <<>>]
            /\ UNCHANGED dirs
    /\ UNCHANGED <<restVars, markers, everMarked, now, runs>>

\* The symbolic links (errors absorbed), the .OK file, the completed event
OWriteOk(p) ==
    /\ opc[p] = "write_ok"
    /\ \/ /\ markers' = markers \cup {otime[p]}
          /\ everMarked' = everMarked \cup {otime[p]}
       \/ UNCHANGED <<markers, everMarked>>           \* open() raised
    /\ opc' = [opc EXCEPT ![p] = "idle"]
    /\ otime' = [otime EXCEPT ![p] = 0]
    /\ UNCHANGED <<restVars, dirs, olist, now, runs>>

NextOverlap ==
    \/ OTick
    \/ \E p \in Procs : OStart(p)
    \/ \E p \in Procs : OAbort(p)
    \/ \E p \in Procs : OGlob(p)
    \/ \E p \in Procs : OUnlink(p)
    \/ \E p \in Procs : ORmtree(p)
    \/ \E p \in Procs : OWriteOk(p)

SpecOverlap == Init /\ [][NextOverlap]_vars

TypeOK ==
    /\ exc \in Exceptions \cup {"none"}
    /\ exitCode \in {-1, 0, 1}
    /\ runError \in Exceptions \cup {"none"}
    /\ now \in Times
    /\ dirs \subseteq Times
    /\ markers \subseteq dirs
    /\ tries \in 0..(maxtries + 1)
    /\ find_tries \in 0..find_maxtries
    /\ input_file \in Disks \cup {0}
    /\ fetches \in 0..(maxtries + 1)
    /\ lastFetch \in {"none", "locked", "ok", "error"}
    /\ happened \subseteq {"vm_missing", "dir_exists", "ovf_absent", "ovf_fetch_error",
                           "ovf_write_error", "fetch_error", "migrate_error"}
    /\ deleted \subseteq Times
    /\ stuck \in BOOLEAN
    /\ attached \subseteq attachCreated

(***************************************************************************)
(* Positions of run() relative to the two with blocks                      *)
(***************************************************************************)
\* Inside the body of `with AutoSnapshotService(...)`, __exit__ not yet called
InSnapshotBody ==
    pc \in {"snap_entered", "migrate", "migrate_poll", "disks_begin",
            "attach_add", "find_disk", "copy_disk", "attach_exit", "snap_exit"}

\* Inside the body of `with AutoAttachmentService(...)` of disk d
InAttachmentBody(d) ==
    disk = d /\ pc \in {"find_disk", "copy_disk", "attach_exit"}

\* The process has ended
Ended == pc = "exited"

\* The .OK file of the current run directory was written by this run: the
\* run created the directory itself, so the marker cannot be an older one.
WroteMarker == madeDir /\ now \in markers

(***************************************************************************)
(* C1.  The snapshot removal request is never issued while a disk          *)
(* attachment created by the run still exists on the agent VM, whatever    *)
(* remote call failed.                                                     *)
(***************************************************************************)
C1_NoRemovalWhileAttached ==
    [][snapRemoves' > snapRemoves => attached = {}]_vars

(***************************************************************************)
(* C2.  At the end of any run the number of snapshot removal requests      *)
(* issued equals the number of snapshot creation requests that succeeded.  *)
(***************************************************************************)
C2_RemovalsBalanceCreates ==
    Ended => snapRemoves = snapCreates

(***************************************************************************)
(* C3.  For every disk attachment created, exactly one attachment removal  *)
(* request is issued, whether the body of the attachment guard completed   *)
(* or raised: never more than one, none for a disk not attached, and one   *)
(* as soon as the body of the guard has been left.                         *)
(***************************************************************************)
C3_OneDetachPerAttachment ==
    \A d \in Disks :
        /\ attachRemoves[d] <= 1
        /\ attachRemoves[d] = 1 => d \in attachCreated
        /\ (d \in attachCreated /\ ~InAttachmentBody(d)) => attachRemoves[d] = 1

\* A run has ended with the BackupError raised inside an attachment guard
\* (device never found, or dd failed), every attachment detached once.
C3_Witness ==
    /\ Ended
    /\ runError = "BackupError"
    /\ attachCreated # {}
    /\ \A d \in attachCreated : attachRemoves[d] = 1

(***************************************************************************)
(* C4.  Once __enter__ has returned, the snapshot removal request is       *)
(* issued exactly once when the guarded body finishes, normally or by      *)
(* raising: none while the body runs, one from then on.                    *)
(***************************************************************************)
C4_OneRemovalPerAcquisition ==
    snapEntered => snapRemoves = (IF InSnapshotBody THEN 0 ELSE 1)

\* The body raised (dd failed) and the process has ended after one removal.
C4_Witness ==
    /\ Ended
    /\ snapEntered
    /\ copyFailed # {}
    /\ snapRemoves = 1

(***************************************************************************)
(* C5.  No agent migration and no disk attachment creation is issued, and  *)
(* the body of the snapshot guard is not running, unless the last status   *)
(* fetched by __enter__ was `ok`.                                          *)
(***************************************************************************)
C5_BodyOnlyAfterOk ==
    (migrateCalls > 0 \/ attachCreated # {} \/ InSnapshotBody \/ snapEntered)
        => snapstatus = "ok"

\* The guard was entered, the migration requested and a disk attached.
C5_Witness ==
    /\ snapstatus = "ok"
    /\ migrateCalls = 1
    /\ attachCreated # {}

(***************************************************************************)
(* C6.  If the status is not `ok` after all the tries of __enter__, the    *)
(* acquisition fails with SnapshotError and the run creates no disk        *)
(* attachment (and requests no migration).                                 *)
(***************************************************************************)
C6_TimeoutRaisesAndAttachesNothing ==
    (snapstatus # "ok" /\ tries > maxtries /\ pc # "snap_enter") =>
        /\ ~snapEntered
        /\ attachCreated = {}
        /\ migrateCalls = 0
        /\ \/ pc \in {"run_except", "main_except"} /\ exc = "SnapshotError"
           \/ Ended /\ runError = "SnapshotError"

\* A run has ended by the timeout of the snapshot wait.
C6_Witness ==
    /\ Ended
    /\ runError = "SnapshotError"
    /\ tries = maxtries + 1
    /\ snapCreates = 1

C8_MarkedOrAbsent ==
    (Ended /\ madeDir) => (now \in markers \/ now \notin dirs)

(***************************************************************************)
(* C9.  A run aborted by an error ends the process with a non-zero exit    *)
(* status; exit status 0 occurs only when the run completed.               *)
(***************************************************************************)
C9_ExitStatusTellsSuccess ==
    (Ended /\ madeDir) => (exitCode = 0 <=> completedEvent)

(***************************************************************************)
(* C10.  After every successful run the number of run directories with a   *)
(* completion marker is at most the retention count.                       *)
(***************************************************************************)
C10_AtMostRetentionCount ==
    (Ended /\ completedEvent) => Cardinality(markers) <= num_backups

(***************************************************************************)
(* C11.  _remove_old_backups deletes oldest first: whenever it removes the *)
(* marker of a run, every marked run that survives is newer, and when the  *)
(* deletion did not raise, the directory of that run is gone together with *)
(* its marker.                                                             *)
(***************************************************************************)
C11_OldestFirstBothRemoved ==
    [][\A t \in markers \ markers' :
           /\ \A u \in markers' : t < u
           /\ exc' = "none" => t \notin dirs']_vars

\* With a retention count of 1 the third run deleted run 1 and kept run 2.
C11_Witness ==
    /\ pc = "symlinks"
    /\ deleted = {1}
    /\ markers = {2}
    /\ 1 \notin dirs

(***************************************************************************)
(* C12.  _backup_snapshot_disks fails fast: once the attachment block of a *)
(* disk has been left without the disk having been copied, no attachment   *)
(* is created and no copy is started for any disk that follows it in the   *)
(* snapshot's disk listing.                                                *)
(***************************************************************************)
C12_FailFast ==
    \A d \in attachCreated \ copied :
        ~InAttachmentBody(d) =>
            \A e \in Disks : e > d => e \notin attachCreated /\ disk # e

\* dd failed on the first of two disks and the run has ended.
C12_Witness ==
    /\ Ended
    /\ nDisks = 2
    /\ copyFailed = {1}
    /\ attachCreated = {1}
    /\ copied = {}

(***************************************************************************)
(* C13.  _find_data_disk returns the device whose serial matches the disk  *)
(* after at most 6 attempts (k not-found attempts, k <= 5, then a match),  *)
(* and when it fails it raises BackupError after exactly 6 attempts,       *)
(* having returned no device.                                              *)
(***************************************************************************)
C13_FindWithinBound ==
    /\ pc = "copy_disk" =>
           /\ find_tries \in 1..find_maxtries
           /\ input_file = disk
    /\ (pc = "attach_exit" /\ find_tries > 0) =>
           /\ find_tries = find_maxtries
           /\ exc = "BackupError"
           /\ input_file = 0

\* Five attempts found nothing and the sixth found the device.
C13_Witness ==
    /\ pc = "copy_disk"
    /\ find_tries = find_maxtries
    /\ input_file = disk

(***************************************************************************)
(* C14.  With migrate requested, an error raised by the agent migration is *)
(* absorbed: every step of _migrate_agent_vm leaves no exception pending   *)
(* and leads on to the disk loop, whether or not it raised.                *)
(***************************************************************************)
C14_MigrationErrorAbsorbed ==
    [][(pc \in {"migrate", "migrate_poll"}) =>
          (exc' = "none" /\ pc' \in {"migrate_poll", "disks_begin"})]_vars

\* The migration raised, both disks were copied and the marker was written.
C14_Witness ==
    /\ Ended
    /\ migrate
    /\ "migrate_error" \in happened
    /\ copied = {1, 2}
    /\ now \in markers
    /\ completedEvent

(***************************************************************************)
(* C15.  When the data VM name or the agent VM name matches zero VMs, the  *)
(* resolution fails with BackupError and the invocation makes no remote    *)
(* mutation and no run directory: no snapshot is created, no attachment is *)
(* created, no migration is requested, os.makedirs is not reached.         *)
(***************************************************************************)
C15_MissingVmNoMutation ==
    "vm_missing" \in happened =>
        /\ snapCreates = 0
        /\ attachCreated = {}
        /\ migrateCalls = 0
        /\ ~madeDir
        /\ \/ pc = "main_except" /\ exc = "BackupError"
           \/ Ended /\ runError = "BackupError"

\* The invocation ended on a name that matched no VM.
C15_Witness ==
    /\ Ended
    /\ "vm_missing" \in happened
    /\ runError = "BackupError"

(***************************************************************************)
(* C16.  A failure of the OVF export, of any kind (metadata absent, remote *)
(* fetch error, local write error), is non-fatal: the step that exports    *)
(* the OVF always leads on to the snapshot request.                        *)
(***************************************************************************)
C16_OvfFailureNonFatal ==
    [][(pc = "save_ovf") => (pc' = "snap_add" /\ exc' = "none")]_vars

(***************************************************************************)
(* C18 as stated.  If the first ok status is returned by the (k+1)-th      *)
(* status fetch, the guard is entered after exactly k poll delays          *)
(* (locked, locked, locked, ok: 3 delays).                                 *)
(***************************************************************************)
C18_EnteredAfterKDelays ==
    pc = "snap_entered" => sleeps = fetches - 1

(***************************************************************************)
(* C18, amended.  If the first ok status is returned by the (k+1)-th       *)
(* status fetch, k <= 50, the guard is entered after exactly k+1 poll      *)
(* delays, one after every fetch including the one that returned ok, and   *)
(* does not raise; SnapshotError is raised only after 51 fetches none of   *)
(* which returned ok.                                                      *)
(***************************************************************************)
C18_EnteredAfterOneDelayPerFetch ==
    /\ pc = "snap_entered" =>
           /\ lastFetch = "ok"
           /\ exc = "none"
           /\ fetches \in 1..(maxtries + 1)
           /\ sleeps = fetches
    /\ (pc = "run_except" /\ exc = "SnapshotError") =>
           /\ lastFetch # "ok"
           /\ fetches = maxtries + 1

\* Status sequence locked, locked, locked, ok: entered after 4 delays.
C18_Witness ==
    /\ pc = "snap_entered"
    /\ fetches = 4
    /\ sleeps = 4
    /\ "fetch_error" \notin happened

(***************************************************************************)
(* C19.  In __enter__ a status fetch that raises does not abort the        *)
(* acquisition: it leaves no exception pending, it counts as one try, and  *)
(* after it the loop polls again while tries <= 50 (entering on a later    *)
(* ok) and raises SnapshotError only once the tries are used up.           *)
(***************************************************************************)
C19_FetchErrorRetried ==
    [][/\ (lastFetch' = "error" /\ fetches' # fetches) =>
              (pc' = "snap_enter" /\ exc' = "none" /\ tries' = tries + 1)
       /\ (pc = "snap_enter" /\ lastFetch = "error") =>
              IF tries <= maxtries
              THEN pc' = "snap_enter" /\ fetches' = fetches + 1
              ELSE exc' = "SnapshotError"
       /\ (pc = "snap_enter" /\ snapstatus = "ok") => pc' = "snap_entered"]_vars

\* The first fetch raised, the second returned ok and the guard was entered.
C19_Witness ==
    /\ pc = "snap_entered"
    /\ "fetch_error" \in happened
    /\ fetches = 2

(***************************************************************************)
(* C20.  In __exit__, once the removal request has been issued, a failed   *)
(* status lookup ends the wait without an error escaping: no status lookup *)
(* of __exit__ changes the pending exception.                              *)
(***************************************************************************)
C20_LookupErrorsEndWaitQuietly ==
    [][(pc \in {"snap_exit_get", "snap_exit_wait"}) => exc' = exc]_vars

(***************************************************************************)
(* C17.  _find_data_device (backupvm2.py) returns the disk device behind a *)
(* by-id entry whose name contains the first 20 characters of the          *)
(* attachment's disk id; the disk of the returned device has the same      *)
(* first 20 id characters; and when no entry matches it raises             *)
(* BackupError.                                                            *)
(***************************************************************************)
C17_DeviceOfMatchingEntry ==
    /\ devpc = "returned" =>
           /\ \E e \in by_id :
                 /\ Contains(EntryName(e),
                             Take(DiskId(attachment_id), PrefixLen))
                 /\ device = [disk |-> e.disk, part |-> 0]
           /\ Take(DiskId(device.disk), PrefixLen)
                 = Take(DiskId(attachment_id), PrefixLen)
    /\ (devpc # "idle"
          /\ \A e \in by_id :
                Take(DiskId(e.disk), PrefixLen)
                  # Take(DiskId(attachment_id), PrefixLen)) =>
           (devpc = "raised" /\ device = NoDevice)

\* Disk 2 was looked up while disk 0, whose id differs in the 20th
\* character, was present with a partition; the device of disk 2 came back.
C17_Witness ==
    /\ devpc = "returned"
    /\ attachment_id = 2
    /\ device = [disk |-> 2, part |-> 0]
    /\ [disk |-> 0, part |-> 1] \in by_id
    /\ [disk |-> 2, part |-> 1] \in by_id

C22_OneAttachmentAtATime ==
    /\ Cardinality(attached) <= 1
    /\ \A d \in attachCreated : \A e \in Disks :
           e < d => (e \in attachCreated /\ attachRemoves[e] = 1
                     /\ e \notin attached)

\* The second disk is attached after the first was detached.
C22_Witness ==
    /\ pc = "copy_disk"
    /\ disk = 2
    /\ attached = {2}
    /\ attachCreated = {1, 2}
    /\ attachRemoves[1] = 1

(***************************************************************************)
(* C23.  When the run directory of the current timestamp already exists,   *)
(* run() fails at os.makedirs with OSError, before any snapshot creation   *)
(* is requested, and from then on the run changes neither the set of run   *)
(* directories nor the set of completion markers.                          *)
(***************************************************************************)
C23_CollisionFailsEarly ==
    [][/\ (pc = "run_start" /\ now \in dirs) =>
              (pc' = "main_except" /\ exc' = "OSError")
       /\ ("dir_exists" \in happened') =>
              /\ dirs' = dirs
              /\ markers' = markers
              /\ snapCreates' = 0
              /\ ~madeDir'
              /\ pc' \in {"main_except", "exited"}]_vars

\* A second run in the minute of a completed one ended on the collision and
\* the first run's marker is still there.
C23_Witness ==
    /\ Ended
    /\ runs = 2
    /\ "dir_exists" \in happened
    /\ runError = "OSError"
    /\ now \in markers

(***************************************************************************)
(* C24.  In backupvm2.py too a non-zero exit of dd aborts the run: after   *)
(* the copy of a disk failed, no later disk of the listing is attached and *)
(* _remove_old_backups is not executed.                                    *)
(***************************************************************************)
C24_DdFailureAbortsRunV2 ==
    \A d \in copyFailed :
        /\ \A e \in Disks : e > d => e \notin attachCreated
        /\ ~retentionRan

(***************************************************************************)
(* C25.  Every wait of run() on a remote state transition is bounded: with *)
(* migrate not requested, every invocation that has started eventually     *)
(* ends, whatever the remote returns, also when the snapshot stays locked  *)
(* for ever after its removal was requested.                               *)
(***************************************************************************)
C25_RunTerminates ==
    (pc = "get_data_vm" /\ ~migrate) ~> Ended

(***************************************************************************)
(* C26.  Under any interleaving of two overlapping runs for one VM,        *)
(* _remove_old_backups deletes only run directories that carried a         *)
(* completion marker, never the directory of a run in progress, its own    *)
(* included; the directory of a run in progress disappears only when that  *)
(* run itself aborts and its except clause removes it.                     *)
(***************************************************************************)
C26_RetentionSparesRunsInProgress ==
    [][\A t \in dirs \ dirs' :
           /\ (\E p \in Procs : opc[p] = "rmtree" /\ opc'[p] # "rmtree") =>
                  (t \in everMarked /\ t \notin InProgress)
           /\ \A q \in Procs :
                  (opc[q] # "idle" /\ otime[q] = t) =>
                      (opc[q] = "running" /\ opc'[q] = "idle")]_vars

\* Process 1 has deleted the marked run 1 in its retention while process 2
\* is still copying.
C26_Witness ==
    /\ opc[1] \in {"retention", "write_ok"}
    /\ opc[2] = "running"
    /\ otime[2] \in dirs
    /\ 1 \in everMarked
    /\ 1 \notin dirs

=============================================================================
